---- MODULE Spec2Model ----
(***************************************************************************)
(* AuroraPostgresStore: an item store kept in one Postgres table that is   *)
(* reached through the RDS Data API (one parameterised statement per       *)
(* call).  The model holds the table, the statement each operation builds, *)
(* what the statement executor does with it, and what the operation makes  *)
(* of the returned records.                                                *)
(***************************************************************************)
EXTENDS Integers, Sequences, FiniteSets, TLC

VARIABLES table, last, trav, issued, schema, inflight

vars == <<table, last, trav, issued, schema, inflight>>

(***************************************************************************)
(* Bounds                                                                  *)
(***************************************************************************)
\* largest limit a query carries (limits range over 0..MaxLimit)
MaxLimit == 2
\* longest key list handed to getMany
MaxKeys == 2
\* most find calls one traversal is followed for
MaxCalls == 4

(***************************************************************************)
(* JavaScript values                                                       *)
(***************************************************************************)
Undefined == [undefined |-> TRUE]
JsNull == [null |-> TRUE]
JsNumber(n) == [number |-> n]
JsString(s) == [string |-> s]
JsArray(elements) == [array |-> elements]
\* what lookup[key] yields on a fresh {} for a key it does not own
JsInherited(k) == [inherited |-> k]

\* property names every plain object inherits from Object.prototype
ObjectPrototypeNames == {"constructor"}

\* ToBoolean of the values a query or a record carries
Truthy(v) ==
    CASE "undefined" \in DOMAIN v -> FALSE
      [] "null" \in DOMAIN v -> FALSE
      [] "string" \in DOMAIN v -> v.string # ""
      [] "number" \in DOMAIN v -> v.number # 0
      [] OTHER -> TRUE

\* obj[prop] of an object literal held as a function on its own properties
Prop(obj, prop) == IF prop \in DOMAIN obj THEN obj[prop] ELSE Undefined

(***************************************************************************)
(* Items (the User of the tests) and their keys                            *)
(***************************************************************************)
Keys == {"", "constructor", "u1"}
Names == {"Trevor", "Eternal"}
Ages == {JsNull, JsNumber(47)}
Items == [id : Keys, name : Names, age : Ages]

\* Postgres orders the key column as text
KeyRank(k) == CASE k = "" -> 0 [] k = "constructor" -> 1 [] k = "u1" -> 2

getItemKey(item) == item.id

(***************************************************************************)
(* JSON text: a sequence of members, "" being the empty sequence           *)
(***************************************************************************)
JSONMember(k, v) == [member |-> k, text |-> v]

JSONstringify(item) ==
    << JSONMember("age", IF item.age = JsNull THEN [literal |-> "null"]
                                              ELSE [digits |-> item.age.number]),
       JSONMember("id", [quoted |-> item.id]),
       JSONMember("name", [quoted |-> item.name]) >>

JSONField(text, k) == (CHOOSE i \in 1..Len(text) : text[i].member = k)

JSONparse(text) ==
    [id   |-> text[JSONField(text, "id")].text.quoted,
     name |-> text[JSONField(text, "name")].text.quoted,
     age  |-> LET a == text[JSONField(text, "age")].text
              IN  IF "literal" \in DOMAIN a THEN JsNull ELSE JsNumber(a.digits)]

\* text that breaks off after its opening brace
Garbled == <<[garbled |-> "{"]>>

\* JSON.parse throws a SyntaxError on text that is empty or not well formed
Decodable(text) ==
    /\ text # <<>>
    /\ \A i \in 1..Len(text) : "member" \in DOMAIN text[i]

\* jsonb keeps object members ordered by length, then bytewise
JsonbOrder == <<"id", "age", "name">>
Jsonb(text) == [i \in 1..Len(JsonbOrder) |-> text[JSONField(text, JsonbOrder[i])]]

(***************************************************************************)
(* Value codecs                                                            *)
(***************************************************************************)
auroraStringValue(value) == [stringValue |-> value]
auroraLongValue(value) == [longValue |-> value.number]
\* a codec handed to a combinator, by name
Codec(higher, value) ==
    CASE higher = "auroraStringValue" -> auroraStringValue(value)
      [] higher = "auroraLongValue" -> auroraLongValue(value)

\* a combinator that makes every value null
auroraNullableAlways(higher, value) == [isNull |-> TRUE]

auroraNullable(higher, value) ==
    IF value = JsNull THEN [isNull |-> TRUE] ELSE Codec(higher, value)

(***************************************************************************)
(* Index descriptors of the store under test, in declaration order         *)
(***************************************************************************)
IndexNames == <<"name", "age">>
pick(name, item) == IF name = "name" THEN item.name ELSE item.age
value(name, v) == IF name = "name" THEN auroraStringValue(v)
                                   ELSE auroraNullable("auroraLongValue", v)

(***************************************************************************)
(* The statement executor: Postgres behind executeStatement                *)
(*                                                                         *)
(* A row holds one wire field per column.  A statement is the structure of *)
(* the SQL text together with its bound parameters.                        *)
(***************************************************************************)
Param(n, v) == [name |-> n, value |-> v]

ParamValue(parameters, n) ==
    parameters[CHOOSE i \in 1..Len(parameters) : parameters[i].name = n].value

IsNullField(f) == "isNull" \in DOMAIN f

FieldRank(f) == IF "longValue" \in DOMAIN f THEN f.longValue
                                             ELSE KeyRank(f.stringValue)

\* one comparison of a WHERE clause; a comparison with NULL selects nothing
Compare(cmp, a, bs) ==
    /\ ~IsNullField(a)
    /\ \A i \in 1..Len(bs) : ~IsNullField(bs[i])
    /\ CASE cmp = "="  -> a = bs[1]
         [] cmp = "<>" -> a # bs[1]
         [] cmp = ">"  -> FieldRank(a) > FieldRank(bs[1])
         [] cmp = ">=" -> FieldRank(a) >= FieldRank(bs[1])
         [] cmp = "<"  -> FieldRank(a) < FieldRank(bs[1])
         [] cmp = "<=" -> FieldRank(a) <= FieldRank(bs[1])
         [] cmp = "IN" -> \E i \in 1..Len(bs) : a = bs[i]

ClauseHolds(row, clause, parameters) ==
    Compare(clause.cmp, row[clause.column],
            [i \in 1..Len(clause.params) |-> ParamValue(parameters, clause.params[i])])

WhereHolds(row, stmt) ==
    \A c \in 1..Len(stmt.where) : ClauseHolds(row, stmt.where[c], stmt.parameters)

RECURSIVE Matching(_, _)
Matching(tbl, stmt) ==
    IF tbl = <<>> THEN <<>>
    ELSE (IF WhereHolds(Head(tbl), stmt) THEN <<Head(tbl)>> ELSE <<>>)
         \o Matching(Tail(tbl), stmt)

\* the primary key of a row: the column key, or id in the earliest tables
KeyOf(row) == IF "id" \in DOMAIN row THEN row.id ELSE row.key

RemoveAt(s, i) == SubSeq(s, 1, i - 1) \o SubSeq(s, i + 1, Len(s))

\* ORDER BY key
RECURSIVE OrderByKey(_)
OrderByKey(rows) ==
    IF rows = <<>> THEN <<>>
    ELSE LET m == CHOOSE i \in 1..Len(rows) :
                    \A j \in 1..Len(rows) :
                        \/ FieldRank(KeyOf(rows[i])) < FieldRank(KeyOf(rows[j]))
                        \/ (FieldRank(KeyOf(rows[i])) = FieldRank(KeyOf(rows[j])) /\ i <= j)
         IN  <<rows[m]>> \o OrderByKey(RemoveAt(rows, m))

\* without ORDER BY the rows come back in whatever order the engine likes
AnyOrder(rows) ==
    { [i \in 1..Len(rows) |-> rows[p[i]]] : p \in Permutations(1..Len(rows)) }

Min(a, b) == IF a < b THEN a ELSE b

Limit(rows, stmt) ==
    IF stmt.limit = <<>> THEN rows
    ELSE SubSeq(rows, 1, Min(Len(rows), stmt.limit[1]))

Project(rows, stmt) ==
    [i \in 1..Len(rows) |-> [c \in 1..Len(stmt.columns) |-> rows[i][stmt.columns[c]]]]

Outcome(e, recs, tbl) == [error |-> e, records |-> recs, table |-> tbl]

\* "IN ()" does not parse
EmptyInList(stmt) ==
    \E c \in 1..Len(stmt.where) :
        stmt.where[c].cmp = "IN" /\ stmt.where[c].params \in {<<>>, <<"">>}

ExecSelect(tbl, stmt) ==
    LET rows == Matching(tbl, stmt)
        orders == IF stmt.orderBy THEN {OrderByKey(rows)} ELSE AnyOrder(rows)
    IN  IF EmptyInList(stmt) THEN {Outcome("syntax_error", <<>>, tbl)}
        ELSE { Outcome("", Project(Limit(o, stmt), stmt), tbl) : o \in orders }

\* what a column keeps of the value written to it: jsonb normalises its text
Stored(column, f) ==
    IF column = "item" THEN [stringValue |-> Jsonb(f.stringValue)] ELSE f

RowIndex(tbl, key) ==
    IF \E i \in 1..Len(tbl) : KeyOf(tbl[i]) = key
    THEN CHOOSE i \in 1..Len(tbl) : KeyOf(tbl[i]) = key
    ELSE 0

\* the row an INSERT proposes (Excluded, in ON CONFLICT)
Proposed(stmt) ==
    [c \in {stmt.columns[j] : j \in 1..Len(stmt.columns)} |->
        LET j == CHOOSE j \in 1..Len(stmt.columns) : stmt.columns[j] = c
        IN  Stored(c, ParamValue(stmt.parameters, stmt.values[j]))]

\* The table is held in key order.  Nothing reads that order: a SELECT
\* without ORDER BY returns its rows in any order.
InsertRow(tbl, new) ==
    LET before == { i \in 1..Len(tbl) : FieldRank(KeyOf(tbl[i])) <= FieldRank(KeyOf(new)) }
    IN  SubSeq(tbl, 1, Cardinality(before)) \o <<new>>
        \o SubSeq(tbl, Cardinality(before) + 1, Len(tbl))

ExecInsert(tbl, stmt) ==
    LET new == Proposed(stmt)
        at == RowIndex(tbl, KeyOf(new))
    IN  IF at = 0 THEN {Outcome("", <<>>, InsertRow(tbl, new))}
        ELSE IF stmt.onConflict = <<>> THEN {Outcome("unique_violation", <<>>, tbl)}
        ELSE {Outcome("", <<>>,
                [tbl EXCEPT ![at] =
                    [c \in DOMAIN tbl[at] |->
                        IF \E j \in 1..Len(stmt.set) : stmt.set[j] = c
                        THEN new[c] ELSE tbl[at][c]]])}

ExecUpdate(tbl, stmt) ==
    {Outcome("", <<>>,
        [i \in 1..Len(tbl) |->
            IF WhereHolds(tbl[i], stmt)
            THEN [c \in DOMAIN tbl[i] |->
                    IF \E j \in 1..Len(stmt.set) : stmt.set[j].column = c
                    THEN LET j == CHOOSE j \in 1..Len(stmt.set) : stmt.set[j].column = c
                         IN  Stored(c, ParamValue(stmt.parameters, stmt.set[j].param))
                    ELSE tbl[i][c]]
            ELSE tbl[i]])}

ExecDelete(tbl, stmt) == {Outcome("", <<>>, <<>>)}

\* the request either fails before it runs or runs as one statement
executeStatement(tbl, stmt) ==
    {Outcome("ServiceUnavailable", <<>>, tbl)} \cup
    CASE stmt.verb = "SELECT" -> ExecSelect(tbl, stmt)
      [] stmt.verb = "INSERT" -> ExecInsert(tbl, stmt)
      [] stmt.verb = "UPDATE" -> ExecUpdate(tbl, stmt)
      [] stmt.verb = "DELETE" -> ExecDelete(tbl, stmt)

\* a column of CREATE TABLE
Column(name, type) == [name |-> name, type |-> type]

\* the columns a statement reads or writes
ColumnsNamed(stmt) ==
    CASE stmt.verb = "SELECT" ->
            { stmt.columns[c] : c \in 1..Len(stmt.columns) }
            \cup { stmt.where[c].column : c \in 1..Len(stmt.where) }
      [] stmt.verb = "INSERT" -> { stmt.columns[c] : c \in 1..Len(stmt.columns) }
      [] stmt.verb = "UPDATE" ->
            { stmt.set[c].column : c \in 1..Len(stmt.set) }
            \cup { stmt.where[c].column : c \in 1..Len(stmt.where) }
      [] OTHER -> {}

Reply(out, sch) ==
    [error |-> out.error, records |-> out.records, table |-> out.table,
     schema |-> sch]

\* The database behind the executor.  sch lists the columns of the table,
\* <<>> while the table does not exist; a statement on a missing table or
\* column fails, CREATE TABLE and DROP TABLE make and unmake the table.
Database(sch, tbl, stmt) ==
    {Reply(Outcome("ServiceUnavailable", <<>>, tbl), sch)} \cup
    CASE stmt.verb = "CREATE TABLE" ->
            IF sch # <<>> THEN {Reply(Outcome("duplicate_table", <<>>, tbl), sch)}
            ELSE {Reply(Outcome("", <<>>, <<>>), stmt.columns)}
      [] stmt.verb = "DROP TABLE" ->
            IF sch = <<>> THEN {Reply(Outcome("undefined_table", <<>>, tbl), sch)}
            ELSE {Reply(Outcome("", <<>>, <<>>), <<>>)}
      [] OTHER ->
            IF sch = <<>> THEN {Reply(Outcome("undefined_table", <<>>, tbl), sch)}
            ELSE IF ~(ColumnsNamed(stmt) \subseteq { sch[c].name : c \in 1..Len(sch) })
            THEN {Reply(Outcome("undefined_column", <<>>, tbl), sch)}
            ELSE { Reply(out, sch) : out \in executeStatement(tbl, stmt) }

(***************************************************************************)
(* Filter clause factories of the store under test                         *)
(***************************************************************************)
FilterFields == <<"name", "age">>

Comparators(field) ==
    IF field = "name" THEN <<"eq", "ne", "in">>
                      ELSE <<"eq", "gt", "gte", "lt", "lte">>

SqlOperator(comparator) ==
    CASE comparator = "eq"  -> "="
      [] comparator = "ne"  -> "<>"
      [] comparator = "in"  -> "IN"
      [] comparator = "gt"  -> ">"
      [] comparator = "gte" -> ">="
      [] comparator = "lt"  -> "<"
      [] comparator = "lte" -> "<="

\* the codec a filter field was built with (not nullable, unlike the index)
filterValue(field, v) ==
    IF field = "name" THEN auroraStringValue(v.string) ELSE auroraLongValue(v)

filterClause(field, comparator, v) ==
    IF comparator = "in"
    THEN LET names == [i \in 1..Len(v.array) |->
                          field \o "__in_" \o ToString(i - 1)]
         IN  [where |-> [column |-> field, cmp |-> "IN", params |-> names],
              parameters |-> [i \in 1..Len(v.array) |->
                                 Param(names[i], filterValue(field, v.array[i]))]]
    ELSE LET n == field \o "__" \o comparator
         IN  [where |-> [column |-> field, cmp |-> SqlOperator(comparator), params |-> <<n>>],
              parameters |-> <<Param(n, filterValue(field, v))>>]

(***************************************************************************)
(* The statements the store builds                                         *)
(***************************************************************************)
Select(columns, where, orderBy, limit, parameters) ==
    [verb |-> "SELECT", columns |-> columns, where |-> where,
     orderBy |-> orderBy, limit |-> limit, parameters |-> parameters]

KeyClause(cmp, names) == [column |-> "key", cmp |-> cmp, params |-> names]

\* get without its WHERE clause
getStatementAll(key) ==
    Select(<<"item">>, <<>>, FALSE, <<>>,
           <<Param("key", [stringValue |-> key])>>)

getStatement(key) ==
    Select(<<"item">>, <<KeyClause("=", <<"key">>)>>, FALSE, <<>>,
           <<Param("key", [stringValue |-> key])>>)

getManyStatement(keys) ==
    LET keyNames == [index \in 1..Len(keys) |-> "key" \o ToString(index - 1)]
    IN  Select(<<"key", "item">>, <<KeyClause("IN", keyNames)>>, FALSE, <<>>,
               [index \in 1..Len(keys) |->
                   Param(keyNames[index], [stringValue |-> keys[index]])])

IndexParameters(item) ==
    [n \in 1..Len(IndexNames) |->
        Param(IndexNames[n], value(IndexNames[n], pick(IndexNames[n], item)))]

\* put whose conflict branch updates the item alone
putStatementItemOnly(item) ==
    [verb |-> "INSERT",
     columns |-> <<"key", "item">> \o IndexNames,
     values |-> <<"key", "item">> \o IndexNames,
     onConflict |-> <<"key">>,
     set |-> <<"item">>,
     parameters |-> << Param("key", [stringValue |-> getItemKey(item)]),
                       Param("item", [stringValue |-> JSONstringify(item)]) >>
                    \o IndexParameters(item)]

\* put without its ON CONFLICT clause
putStatementNoConflict(item) ==
    [verb |-> "INSERT",
     columns |-> <<"key", "item">> \o IndexNames,
     values |-> <<"key", "item">> \o IndexNames,
     onConflict |-> <<>>,
     set |-> <<>>,
     parameters |-> << Param("key", [stringValue |-> getItemKey(item)]),
                       Param("item", [stringValue |-> JSONstringify(item)]) >>
                    \o IndexParameters(item)]

putStatement(item) ==
    [verb |-> "INSERT",
     columns |-> <<"key", "item">> \o IndexNames,
     values |-> <<"key", "item">> \o IndexNames,
     onConflict |-> <<"key">>,
     set |-> <<"item">> \o IndexNames,
     parameters |-> << Param("key", [stringValue |-> getItemKey(item)]),
                       Param("item", [stringValue |-> JSONstringify(item)]) >>
                    \o IndexParameters(item)]

\* the class-based index descriptors of create and update
valueFromItem(name, item) == pick(name, item)
parameterValue(name, v) == value(name, v)

parameterFromItem(name, item) ==
    Param(name, parameterValue(name, valueFromItem(name, item)))

createParams(name, item) ==
    [fields |-> <<name>>, values |-> <<name>>,
     parameters |-> <<parameterFromItem(name, item)>>]

updateParams(name, item) ==
    [set |-> <<[column |-> name, param |-> name]>>,
     parameters |-> <<parameterFromItem(name, item)>>]

RECURSIVE createParts(_, _)
createParts(n, item) ==
    IF n = 0
    THEN [fields |-> <<"key", "item">>, values |-> <<"key", "item">>,
          parameters |-> << Param("key", [stringValue |-> getItemKey(item)]),
                            Param("item", [stringValue |-> JSONstringify(item)]) >>]
    ELSE LET acc == createParts(n - 1, item)
             params == createParams(IndexNames[n], item)
         IN  [fields |-> acc.fields \o params.fields,
              values |-> acc.values \o params.values,
              parameters |-> acc.parameters \o params.parameters]

\* create written as an upsert
createStatementUpsert(item) ==
    LET parts == createParts(Len(IndexNames), item)
    IN  [verb |-> "INSERT", columns |-> parts.fields, values |-> parts.values,
         onConflict |-> <<"key">>, set |-> <<"item">> \o IndexNames,
         parameters |-> parts.parameters]

createStatement(item) ==
    LET parts == createParts(Len(IndexNames), item)
    IN  [verb |-> "INSERT", columns |-> parts.fields, values |-> parts.values,
         onConflict |-> <<>>, set |-> <<>>, parameters |-> parts.parameters]

RECURSIVE updateParts(_, _)
\* an update that sets the item column alone
updatePartsItemOnly(n, item) ==
    [set |-> <<[column |-> "item", param |-> "item"]>>,
     parameters |-> << Param("key", [stringValue |-> getItemKey(item)]),
                       Param("item", [stringValue |-> JSONstringify(item)]) >>]

updateParts(n, item) ==
    IF n = 0
    THEN [set |-> <<[column |-> "item", param |-> "item"]>>,
          parameters |-> << Param("key", [stringValue |-> getItemKey(item)]),
                            Param("item", [stringValue |-> JSONstringify(item)]) >>]
    ELSE LET acc == updateParts(n - 1, item)
             params == updateParams(IndexNames[n], item)
         IN  [set |-> acc.set \o params.set,
              parameters |-> acc.parameters \o params.parameters]

\* update written as an upsert
updateStatementUpsert(item) ==
    LET parts == createParts(Len(IndexNames), item)
    IN  [verb |-> "INSERT", columns |-> parts.fields, values |-> parts.values,
         onConflict |-> <<"key">>, set |-> <<"item">> \o IndexNames,
         parameters |-> parts.parameters]

\* update without its WHERE clause
updateStatementEveryRow(item) ==
    LET parts == updateParts(Len(IndexNames), item)
    IN  [verb |-> "UPDATE", set |-> parts.set,
         where |-> <<>>, parameters |-> parts.parameters]

updateStatement(item) ==
    LET parts == updateParts(Len(IndexNames), item)
    IN  [verb |-> "UPDATE", set |-> parts.set,
         where |-> <<KeyClause("=", <<"key">>)>>, parameters |-> parts.parameters]

clearStatement == [verb |-> "DELETE"]

dataType(name) == IF name = "name" THEN "varchar(128)" ELSE "integer"

setupStatement ==
    [verb |-> "CREATE TABLE",
     columns |-> << Column("key", "varchar(64) PRIMARY KEY"), Column("item", "jsonb") >>
                 \o [n \in 1..Len(IndexNames) |->
                        Column(IndexNames[n], dataType(IndexNames[n]))]]

teardownStatement == [verb |-> "DROP TABLE"]

\* find: the (field, comparator) pairs in the order the two loops visit them
RECURSIVE FilterSlots(_)
FilterSlots(f) ==
    IF f = 0 THEN <<>>
    ELSE FilterSlots(f - 1) \o
         [c \in 1..Len(Comparators(FilterFields[f])) |->
             [field |-> FilterFields[f], comparator |-> Comparators(FilterFields[f])[c]]]

hasLimit(query) == "number" \in DOMAIN query.limit

RECURSIVE findFilterParts(_, _, _)
RECURSIVE findFilterPartsTruthy(_, _, _)
\* the filter loop of find testing each comparator's value for truthiness
findFilterPartsTruthy(query, slots, acc) ==
    IF slots = <<>> THEN acc
    ELSE LET field == Head(slots).field
             comparator == Head(slots).comparator
         IN  IF /\ Truthy(Prop(query.filter, field))
                /\ Truthy(Prop(query.filter[field], comparator))
             THEN LET params == filterClause(field, comparator,
                                             query.filter[field][comparator])
                  IN  findFilterPartsTruthy(query, Tail(slots),
                        [where |-> Append(acc.where, params.where),
                         parameters |-> acc.parameters \o params.parameters])
             ELSE findFilterPartsTruthy(query, Tail(slots), acc)

findFilterParts(query, slots, acc) ==
    IF slots = <<>> THEN acc
    ELSE LET field == Head(slots).field
             comparator == Head(slots).comparator
         IN  IF /\ Truthy(Prop(query.filter, field))
                /\ Prop(query.filter[field], comparator) # Undefined
             THEN LET params == filterClause(field, comparator,
                                             query.filter[field][comparator])
                  IN  findFilterParts(query, Tail(slots),
                        [where |-> Append(acc.where, params.where),
                         parameters |-> acc.parameters \o params.parameters])
             ELSE findFilterParts(query, Tail(slots), acc)

\* find without ORDER BY
findStatementUnordered(query) ==
    LET cursorPart ==
            IF Truthy(query.cursor)
            THEN [where |-> <<KeyClause(">", <<"key">>)>>,
                  parameters |-> <<Param("key", [stringValue |-> query.cursor.string])>>]
            ELSE [where |-> <<>>, parameters |-> <<>>]
        parts ==
            IF Truthy(query.filter)
            THEN findFilterParts(query, FilterSlots(Len(FilterFields)), cursorPart)
            ELSE cursorPart
    IN  Select(<<"key", "item">>, parts.where, FALSE,
               IF hasLimit(query) THEN <<query.limit.number + 1>> ELSE <<>>,
               parts.parameters)

findStatement(query) ==
    LET cursorPart ==
            IF Truthy(query.cursor)
            THEN [where |-> <<KeyClause(">", <<"key">>)>>,
                  parameters |-> <<Param("key", [stringValue |-> query.cursor.string])>>]
            ELSE [where |-> <<>>, parameters |-> <<>>]
        parts ==
            IF Truthy(query.filter)
            THEN findFilterParts(query, FilterSlots(Len(FilterFields)), cursorPart)
            ELSE cursorPart
    IN  Select(<<"key", "item">>, parts.where, TRUE,
               IF hasLimit(query) THEN <<query.limit.number + 1>> ELSE <<>>,
               parts.parameters)

(***************************************************************************)
(* The earlier adapter built on index classes: its filter clauses, its     *)
(* find and its setup                                                      *)
(***************************************************************************)
\* a filter value as the item field it is compared with is held
Plain(v) == IF "string" \in DOMAIN v THEN v.string ELSE v

NoParams == [where |-> <<>>, parameters |-> <<>>]

\* where.push(`${name} ${op} :${paramName}`) with its parameters.push
Pushed(name, op, paramName, v) ==
    [where |-> <<[column |-> name, cmp |-> op, params |-> <<paramName>>]>>,
     parameters |-> <<Param(paramName, parameterValue(name, Plain(v)))>>]

Joined(parts) ==
    [where |-> parts[1].where \o parts[2].where \o parts[3].where
               \o parts[4].where \o parts[5].where,
     parameters |-> parts[1].parameters \o parts[2].parameters \o parts[3].parameters
                    \o parts[4].parameters \o parts[5].parameters]

\* the names that follow a colon in `:${paramNames.join(', :')}`: joining no
\* name at all still leaves the one colon of the template
ColonJoined(paramNames) == IF paramNames = <<>> THEN <<"">> ELSE paramNames

\* the in list binding its values in reverse
ExactIndex_filterParamsReversed(name, filter) ==
    Joined(<<
        IF Prop(filter, "eq") # Undefined
        THEN Pushed(name, "=", name \o "__eq", filter.eq) ELSE NoParams,
        IF Prop(filter, "ne") # Undefined
        THEN Pushed(name, "<>", name \o "__ne", filter.ne) ELSE NoParams,
        IF Prop(filter, "in") # Undefined
        THEN LET values == filter["in"].array
                 paramNames == [index \in 1..Len(values) |->
                                   name \o "__in_" \o ToString(index - 1)]
             IN  [where |-> <<[column |-> name, cmp |-> "IN",
                                params |-> ColonJoined(paramNames)]>>,
                  parameters |-> [index \in 1..Len(values) |->
                                     Param(paramNames[index],
                                           parameterValue(name,
                                               Plain(values[Len(values) + 1 - index])))]]
        ELSE NoParams,
        NoParams, NoParams >>)

ExactIndex_filterParams(name, filter) ==
    Joined(<<
        IF Prop(filter, "eq") # Undefined
        THEN Pushed(name, "=", name \o "__eq", filter.eq) ELSE NoParams,
        IF Prop(filter, "ne") # Undefined
        THEN Pushed(name, "<>", name \o "__ne", filter.ne) ELSE NoParams,
        IF Prop(filter, "in") # Undefined
        THEN LET values == filter["in"].array
                 paramNames == [index \in 1..Len(values) |->
                                   name \o "__in_" \o ToString(index - 1)]
             IN  [where |-> <<[column |-> name, cmp |-> "IN",
                                params |-> ColonJoined(paramNames)]>>,
                  parameters |-> [index \in 1..Len(values) |->
                                     Param(paramNames[index],
                                           parameterValue(name, Plain(values[index])))]]
        ELSE NoParams,
        NoParams, NoParams >>)

OrdIndex_filterParams(name, filter) ==
    Joined(<<
        IF Prop(filter, "eq") # Undefined
        THEN Pushed(name, "=", name \o "__eq", filter.eq) ELSE NoParams,
        IF Prop(filter, "gt") # Undefined
        THEN Pushed(name, ">", name \o "_gt", filter.gt) ELSE NoParams,
        IF Prop(filter, "gte") # Undefined
        THEN Pushed(name, ">=", name \o "_gte", filter.gte) ELSE NoParams,
        IF Prop(filter, "lt") # Undefined
        THEN Pushed(name, "<", name \o "_lt", filter.lt) ELSE NoParams,
        IF Prop(filter, "lte") # Undefined
        THEN Pushed(name, "<=", name \o "_lte", filter.lte) ELSE NoParams >>)

\* this.indexes[name].filterParams: name is an exact index, age an ordered one
filterParams(name, filter) ==
    IF name = "name" THEN ExactIndex_filterParams(name, filter)
                     ELSE OrdIndex_filterParams(name, filter)

\* the loop of find over the first n indexes
RECURSIVE findIndexParts(_, _, _)
findIndexParts(query, n, acc) ==
    IF n > Len(IndexNames) THEN acc
    ELSE LET name == IndexNames[n]
         IN  IF name \in DOMAIN query.filter /\ Truthy(query.filter[name])
             THEN LET params == filterParams(name, query.filter[name])
                  IN  findIndexParts(query, n + 1,
                        [where |-> acc.where \o params.where,
                         parameters |-> acc.parameters \o params.parameters])
             ELSE findIndexParts(query, n + 1, acc)

findStatementByIndexes(query) ==
    LET cursorPart ==
            IF Truthy(query.cursor)
            THEN [where |-> <<KeyClause(">", <<"key">>)>>,
                  parameters |-> <<Param("key", [stringValue |-> query.cursor.string])>>]
            ELSE NoParams
        parts ==
            IF Truthy(query.filter)
            THEN findIndexParts(query, 1, cursorPart)
            ELSE cursorPart
    IN  Select(<<"key", "item">>, parts.where, TRUE,
               IF hasLimit(query) THEN <<query.limit.number + 1>> ELSE <<>>,
               parts.parameters)

(***************************************************************************)
(* The earliest adapter: a table keyed by id, no declared indexes          *)
(***************************************************************************)
tableById == << Column("id", "varchar(64) PRIMARY KEY"), Column("item", "jsonb") >>

createStatementById(item) ==
    [verb |-> "INSERT", columns |-> <<"id", "item">>, values |-> <<"id", "item">>,
     onConflict |-> <<>>, set |-> <<>>,
     parameters |-> << Param("id", [stringValue |-> getItemKey(item)]),
                       Param("item", [stringValue |-> JSONstringify(item)]) >>]

findStatementById(query) ==
    LET cursorPart ==
            IF Truthy(query.cursor)
            THEN [where |-> <<[column |-> "id", cmp |-> ">", params |-> <<"id">>]>>,
                  parameters |-> <<Param("id", [stringValue |-> query.cursor.string])>>]
            ELSE NoParams
    IN  Select(<<"id", "item">>, cursorPart.where, FALSE,
               IF hasLimit(query) THEN <<query.limit.number + 1>> ELSE <<>>,
               cursorPart.parameters)

\* CREATE TABLE of the earlier adapters: the key and the item, nothing else
setupStatementBare ==
    [verb |-> "CREATE TABLE",
     columns |-> << Column("key", "varchar(64) PRIMARY KEY"), Column("item", "jsonb") >>]

(***************************************************************************)
(* What each operation makes of the executor's records                     *)
(***************************************************************************)
Resolved(v) == [status |-> "resolved", value |-> v]
Rejected(e) == [status |-> "rejected", value |-> e]

\* get reading the first record without looking whether there is one
getResultUnchecked(records) ==
    IF Len(records) = 0 THEN Rejected("TypeError")
    ELSE LET json == records[1][1].stringValue
         IN  IF json = <<>> THEN Resolved(Undefined)
             ELSE IF ~Decodable(json) THEN Rejected("SyntaxError")
             ELSE Resolved(JSONparse(json))

getResult(records) ==
    IF Len(records) # 0
    THEN LET json == records[1][1].stringValue
         IN  IF json = <<>> THEN Resolved(Undefined)
             ELSE IF ~Decodable(json) THEN Rejected("SyntaxError")
             ELSE Resolved(JSONparse(json))
    ELSE Resolved(Undefined)

\* the records that the reduce of getMany enters into its lookup object
lookupEntries(records) ==
    { i \in 1..Len(records) :
         records[i][1].stringValue # "" /\ records[i][2].stringValue # <<>> }

lookup(records, key) ==
    LET own == { i \in lookupEntries(records) : records[i][1].stringValue = key }
    IN  IF own # {}
        THEN JSONparse(records[CHOOSE i \in own : \A j \in own : j <= i][2].stringValue)
        ELSE IF key \in ObjectPrototypeNames THEN JsInherited(key)
        ELSE Undefined

getManyResult(keys, records) ==
    IF \E i \in lookupEntries(records) : ~Decodable(records[i][2].stringValue)
    THEN Rejected("SyntaxError")
    ELSE Resolved([j \in 1..Len(keys) |-> lookup(records, keys[j])])

findResult(query, records) ==
    LET more == hasLimit(query) /\ Len(records) > query.limit.number
        page == IF hasLimit(query)
                THEN SubSeq(records, 1, Min(Len(records), query.limit.number))
                ELSE records
        edges == [i \in 1..Len(page) |->
                     [cursor |-> page[i][1].stringValue,
                      node |-> JSONparse(page[i][2].stringValue)]]
    IN  IF more /\ query.limit.number - 1 < 0
        THEN Rejected("TypeError")
        ELSE IF \E i \in 1..Len(page) : ~Decodable(page[i][2].stringValue)
        THEN Rejected("SyntaxError")
        ELSE Resolved([cursor |-> IF more
                                  THEN JsString(records[query.limit.number][1].stringValue)
                                  ELSE JsNull,
                       edges |-> edges,
                       items |-> [i \in 1..Len(edges) |-> edges[i].node]])

\* the result of the earlier finds: a cursor and the items, no edges
findItemsResult(query, records) ==
    LET more == hasLimit(query) /\ Len(records) > query.limit.number
        page == IF hasLimit(query)
                THEN SubSeq(records, 1, Min(Len(records), query.limit.number))
                ELSE records
    IN  IF more /\ query.limit.number - 1 < 0
        THEN Rejected("TypeError")
        ELSE IF \E i \in 1..Len(page) : ~Decodable(page[i][2].stringValue)
        THEN Rejected("SyntaxError")
        ELSE Resolved([cursor |-> IF more
                                  THEN JsString(records[query.limit.number][1].stringValue)
                                  ELSE JsNull,
                       items |-> [i \in 1..Len(page) |->
                                     JSONparse(page[i][2].stringValue)]])

(***************************************************************************)
(* Inputs                                                                  *)
(***************************************************************************)
RECURSIVE SeqsUpTo(_, _)
SeqsUpTo(S, n) ==
    IF n = 0 THEN {<<>>}
    ELSE LET shorter == SeqsUpTo(S, n - 1)
         IN  shorter \cup { Append(q, x) : q \in shorter, x \in S }

KeyLists == SeqsUpTo(Keys, MaxKeys)

Cursors == {Undefined} \cup { JsString(k) : k \in Keys }
Limits == {Undefined} \cup { JsNumber(n) : n \in 0..MaxLimit }
Filters == { Undefined,
             [age |-> [gt |-> JsNumber(45)]],
             [name |-> [eq |-> JsString("Trevor")]] }
Queries == [cursor : Cursors, limit : Limits, filter : Filters]

\* filters of every shape a caller can write: several fields, several
\* comparators, lists, fields and comparators the store does not declare,
\* comparators left undefined, and values that are falsy
FilterForms ==
    { Undefined,
      [age |-> [gt |-> JsNumber(45)]],
      [name |-> [eq |-> JsString("Trevor")], age |-> [gt |-> JsNumber(45)]],
      [age |-> [gt |-> JsNumber(45), lte |-> JsNumber(47)]],
      [name |-> [ne |-> JsString("Trevor")]],
      [name |-> [in |-> JsArray(<<JsString("Eternal"), JsString("Eternal")>>)]],
      [name |-> [in |-> JsArray(<<JsString("Trevor"), JsString("Eternal")>>)]],
      [createdAt |-> [eq |-> JsString("now")]],
      [name |-> [gt |-> JsString("Eternal")]],
      [age |-> [gt |-> Undefined, lt |-> JsNumber(48)]],
      [name |-> Undefined],
      [age |-> [eq |-> JsNumber(0)]],
      [name |-> [eq |-> JsString("")]] }

\* filters for the index classes: every comparator of both kinds of index
IndexFilters ==
    { Undefined,
      [age |-> [gt |-> JsNumber(45), lte |-> JsNumber(47)]],
      [age |-> [gte |-> JsNumber(47), lt |-> JsNumber(48)]],
      [age |-> [eq |-> JsNumber(47)]],
      [name |-> [eq |-> JsString("Trevor")], age |-> [gt |-> JsNumber(45)]],
      [name |-> [ne |-> JsString("Trevor")]],
      [name |-> [in |-> JsArray(<<JsString("Eternal"), JsString("Eternal")>>)]],
      [name |-> [in |-> JsArray(<<JsString("Trevor"), JsString("Eternal")>>)]],
      [name |-> [in |-> JsArray(<<>>)]] }

IndexQueries ==
    [cursor : {Undefined, JsString("constructor")},
     limit : {Undefined, JsNumber(1)},
     filter : IndexFilters]

FilterQueries ==
    [cursor : {Undefined, JsString(""), JsString("constructor")},
     limit : {Undefined},
     filter : FilterForms]

(***************************************************************************)
(* State: the table, the last settled call, and one cursor traversal       *)
(***************************************************************************)
Call(op, arg, outcome) ==
    [op |-> op, arg |-> arg, status |-> outcome.status, value |-> outcome.value]

\* a call that resolves whatever the executor answered
SettleAnyway(out, outcome) == outcome

Settle(out, outcome) == IF out.error # "" THEN Rejected(out.error) ELSE outcome

NoTraversal ==
    [state |-> "idle", limit |-> 0, filter |-> Undefined, cursor |-> JsNull,
     keys |-> <<>>, calls |-> 0, changed |-> FALSE]

\* A traversal in progress notes whether the table changed under it; the
\* record of a finished one is dropped at the next change.
Watch(tbl) ==
    IF tbl = table THEN trav
    ELSE IF trav.state = "open" THEN [trav EXCEPT !.changed = TRUE]
    ELSE NoTraversal

\* one request to the executor and how it ended
Exchange(request, out) == [request |-> request, error |-> out.error]

\* the table has been set up and nothing has been called yet
Init ==
    /\ table = <<>>
    /\ schema = setupStatement.columns
    /\ issued = <<>>
    /\ inflight = <<>>
    /\ last = Call("none", <<>>, Resolved(Undefined))
    /\ trav = NoTraversal

get(key) ==
    \E out \in Database(schema, table, getStatement(key)) :
        /\ table' = out.table
        /\ schema' = out.schema
        /\ inflight' = inflight
        /\ issued' = <<Exchange(getStatement(key), out)>>
        /\ last' = Call("get", key, Settle(out, getResult(out.records)))
        /\ trav' = Watch(out.table)

\* getMany as one point lookup per key
getManyByLookups(keys) ==
    LET outs == [j \in 1..Len(keys) |->
                    CHOOSE out \in Database(schema, table, getStatement(keys[j])) :
                        out.error # "ServiceUnavailable"]
        failed == { j \in 1..Len(keys) : outs[j].error # "" }
    IN  /\ table' = table
        /\ schema' = schema
        /\ inflight' = inflight
        /\ issued' = [j \in 1..Len(keys) |-> Exchange(getStatement(keys[j]), outs[j])]
        /\ last' = Call("getMany", keys,
                         IF failed # {}
                         THEN Rejected(outs[CHOOSE j \in failed : TRUE].error)
                         ELSE Resolved([j \in 1..Len(keys) |->
                                          getResult(outs[j].records).value]))
        /\ trav' = Watch(table)

getMany(keys) ==
    \E out \in Database(schema, table, getManyStatement(keys)) :
        /\ table' = out.table
        /\ schema' = out.schema
        /\ inflight' = inflight
        /\ issued' = <<Exchange(getManyStatement(keys), out)>>
        /\ last' = Call("getMany", keys, Settle(out, getManyResult(keys, out.records)))
        /\ trav' = Watch(out.table)

put(item) ==
    \E out \in Database(schema, table, putStatement(item)) :
        /\ table' = out.table
        /\ schema' = out.schema
        /\ inflight' = inflight
        /\ issued' = <<Exchange(putStatement(item), out)>>
        /\ last' = Call("put", item, Settle(out, Resolved(Undefined)))
        /\ trav' = Watch(out.table)

create(item) ==
    \E out \in Database(schema, table, createStatement(item)) :
        /\ table' = out.table
        /\ schema' = out.schema
        /\ inflight' = inflight
        /\ issued' = <<Exchange(createStatement(item), out)>>
        /\ last' = Call("create", item, Settle(out, Resolved(Undefined)))
        /\ trav' = Watch(out.table)

update(item) ==
    \E out \in Database(schema, table, updateStatement(item)) :
        /\ table' = out.table
        /\ schema' = out.schema
        /\ inflight' = inflight
        /\ issued' = <<Exchange(updateStatement(item), out)>>
        /\ last' = Call("update", item, Settle(out, Resolved(Undefined)))
        /\ trav' = Watch(out.table)

clear ==
    \E out \in Database(schema, table, clearStatement) :
        /\ table' = out.table
        /\ schema' = out.schema
        /\ inflight' = inflight
        /\ issued' = <<Exchange(clearStatement, out)>>
        /\ last' = Call("clear", <<>>, Settle(out, Resolved(Undefined)))
        /\ trav' = Watch(out.table)

find(query) ==
    \E out \in Database(schema, table, findStatement(query)) :
        /\ table' = out.table
        /\ schema' = out.schema
        /\ inflight' = inflight
        /\ issued' = <<Exchange(findStatement(query), out)>>
        /\ last' = Call("find", query, Settle(out, findResult(query, out.records)))
        /\ trav' = Watch(out.table)

setup ==
    \E out \in Database(schema, table, setupStatement) :
        /\ table' = out.table
        /\ schema' = out.schema
        /\ inflight' = inflight
        /\ issued' = <<Exchange(setupStatement, out)>>
        /\ last' = Call("setup", <<>>, Settle(out, Resolved(Undefined)))
        /\ trav' = Watch(out.table)

teardown ==
    \E out \in Database(schema, table, teardownStatement) :
        /\ table' = out.table
        /\ schema' = out.schema
        /\ inflight' = inflight
        /\ issued' = <<Exchange(teardownStatement, out)>>
        /\ last' = Call("teardown", <<>>, Settle(out, Resolved(Undefined)))
        /\ trav' = Watch(out.table)

findByIndexes(query) ==
    \E out \in Database(schema, table, findStatementByIndexes(query)) :
        /\ table' = out.table
        /\ schema' = out.schema
        /\ inflight' = inflight
        /\ issued' = <<Exchange(findStatementByIndexes(query), out)>>
        /\ last' = Call("findByIndexes", query,
                         Settle(out, findItemsResult(query, out.records)))
        /\ trav' = Watch(out.table)

setupBare ==
    \E out \in Database(schema, table, setupStatementBare) :
        /\ table' = out.table
        /\ schema' = out.schema
        /\ inflight' = inflight
        /\ issued' = <<Exchange(setupStatementBare, out)>>
        /\ last' = Call("setup", <<>>, Settle(out, Resolved(Undefined)))
        /\ trav' = Watch(out.table)

createById(item) ==
    \E out \in Database(schema, table, createStatementById(item)) :
        /\ table' = out.table
        /\ schema' = out.schema
        /\ inflight' = inflight
        /\ issued' = <<Exchange(createStatementById(item), out)>>
        /\ last' = Call("createById", item, Settle(out, Resolved(Undefined)))
        /\ trav' = NoTraversal

findById(query) ==
    \E out \in Database(schema, table, findStatementById(query)) :
        /\ table' = out.table
        /\ schema' = out.schema
        /\ inflight' = inflight
        /\ issued' = <<Exchange(findStatementById(query), out)>>
        /\ last' = Call("findById", query,
                         Settle(out, findItemsResult(query, out.records)))
        /\ trav' = NoTraversal

\* the writes and the point lookups
Next ==
    \/ \E key \in Keys : get(key)
    \/ \E keys \in KeyLists : getMany(keys)
    \/ \E item \in Items : put(item)
    \/ \E item \in Items : create(item)
    \/ \E item \in Items : update(item)
    \/ clear

Spec == Init /\ [][Next]_vars

\* the scans, over every table put and clear can build
NextFind ==
    \/ \E item \in Items : put(item)
    \/ clear
    \/ \E query \in Queries : find(query)

SpecFind == Init /\ [][NextFind]_vars

\* every operation of the store, with setup and teardown, on a few inputs
CallItems == { item \in Items : item.name = "Trevor" }
CallQueries ==
    [cursor : {Undefined, JsString("constructor")},
     limit : {Undefined, JsNumber(1)},
     filter : {Undefined, [age |-> [gt |-> JsNumber(45)]]}]

NextCalls ==
    \/ \E key \in Keys : get(key)
    \/ \E keys \in KeyLists : getMany(keys)
    \/ \E item \in CallItems : put(item)
    \/ \E item \in CallItems : create(item)
    \/ \E item \in CallItems : update(item)
    \/ \E query \in CallQueries : find(query)
    \/ setup
    \/ teardown
    \/ clear

SpecCalls == Init /\ [][NextCalls]_vars

(***************************************************************************)
(* A table the store did not fill itself: another client writes the item   *)
(* column as plain text, well formed or not.                               *)
(***************************************************************************)
ItemTexts(key) ==
    {<<>>, Garbled} \cup { JSONstringify(item) : item \in { i \in CallItems : i.id = key } }

storeText(key, text) ==
    LET row == [key |-> [stringValue |-> key], item |-> [stringValue |-> text],
                name |-> [isNull |-> TRUE], age |-> [isNull |-> TRUE]]
        at == RowIndex(table, row.key)
    IN  /\ table' = IF at = 0 THEN InsertRow(table, row)
                              ELSE [table EXCEPT ![at] = row]
        /\ schema' = schema
        /\ inflight' = inflight
        /\ issued' = <<>>
        /\ last' = Call("none", <<>>, Resolved(Undefined))
        /\ trav' = NoTraversal

NextForeign ==
    \/ \E key \in Keys : \E text \in ItemTexts(key) : storeText(key, text)
    \/ \E key \in Keys : get(key)
    \/ \E keys \in KeyLists : getMany(keys)
    \/ \E limit \in Limits :
          find([cursor |-> Undefined, limit |-> limit, filter |-> Undefined])
    \/ clear

SpecForeign == Init /\ [][NextForeign]_vars

\* the earlier adapter built on index classes
NextIndexes ==
    \/ \E item \in Items : create(item)
    \/ \E item \in CallItems : update(item)
    \/ \E query \in IndexQueries : findByIndexes(query)
    \/ setupBare
    \/ teardown
    \/ clear

SpecIndexes == Init /\ [][NextIndexes]_vars

\* the earliest adapter, on a table keyed by id that was made for it
InitById ==
    /\ table = <<>>
    /\ schema = tableById
    /\ issued = <<>>
    /\ inflight = <<>>
    /\ last = Call("none", <<>>, Resolved(Undefined))
    /\ trav = NoTraversal

NextById ==
    \/ \E item \in Items : createById(item)
    \/ \E cursor \in Cursors, limit \in Limits :
          findById([cursor |-> cursor, limit |-> limit, filter |-> Undefined])

SpecById == InitById /\ [][NextById]_vars

\* the scans again, over every shape of filter
NextFilter ==
    \/ \E item \in Items : put(item)
    \/ clear
    \/ \E query \in FilterQueries : find(query)

SpecFilter == Init /\ [][NextFilter]_vars

(***************************************************************************)
(* A caller paging through find: each call passes the cursor the previous  *)
(* page returned, until a page returns a null cursor.                      *)
(***************************************************************************)
TraversalItems == { item \in Items : item.name = "Trevor" }

page(query) ==
    \E out \in Database(schema, table, findStatement(query)) :
        LET outcome == Settle(out, findResult(query, out.records))
            t == IF query.cursor = Undefined
                 THEN [NoTraversal EXCEPT !.limit = query.limit.number,
                                          !.filter = query.filter]
                 ELSE trav
        IN  /\ table' = out.table
            /\ schema' = out.schema
            /\ inflight' = inflight
            /\ issued' = <<Exchange(findStatement(query), out)>>
            /\ last' = Call("find", query, outcome)
            /\ trav' =
                 IF outcome.status = "rejected"
                 THEN [t EXCEPT !.state = "failed"]
                 ELSE [t EXCEPT
                         !.state = IF outcome.value.cursor = JsNull
                                   THEN "done" ELSE "open",
                         !.cursor = outcome.value.cursor,
                         !.keys = t.keys \o
                                  [i \in 1..Len(outcome.value.edges) |->
                                      outcome.value.edges[i].cursor],
                         !.calls = t.calls + 1]

traverseBegin(limit, filter) ==
    /\ trav.state # "open"
    /\ page([cursor |-> Undefined, limit |-> JsNumber(limit), filter |-> filter])

traverseNext ==
    /\ trav.state = "open"
    /\ trav.calls < MaxCalls
    /\ page([cursor |-> trav.cursor, limit |-> JsNumber(trav.limit),
             filter |-> trav.filter])

NextTraversal ==
    \/ \E item \in TraversalItems : put(item)
    \/ \E item \in TraversalItems : create(item)
    \/ \E item \in TraversalItems : update(item)
    \/ clear
    \/ \E limit \in 1..MaxLimit, filter \in Filters : traverseBegin(limit, filter)
    \/ traverseNext

SpecTraversal == Init /\ [][NextTraversal]_vars

(***************************************************************************)
(* Callers sharing one store: an invocation builds its statement from its  *)
(* own argument and hands it to the client before it first awaits; the     *)
(* database runs the statements of the invocations in flight one at a time, *)
(* in any order, and each invocation settles from the reply to its own.     *)
(***************************************************************************)
\* most invocations awaiting their reply at once
MaxInflight == 2

Request(op, arg) ==
    CASE op = "get"     -> getStatement(arg)
      [] op = "getMany" -> getManyStatement(arg)
      [] op = "put"     -> putStatement(arg)
      [] op = "create"  -> createStatement(arg)
      [] op = "update"  -> updateStatement(arg)
      [] op = "find"    -> findStatement(arg)
      [] op = "clear"   -> clearStatement

Response(op, arg, records) ==
    CASE op = "get"     -> getResult(records)
      [] op = "getMany" -> getManyResult(arg, records)
      [] op = "find"    -> findResult(arg, records)
      [] OTHER          -> Resolved(Undefined)

\* a store that keeps the statement being built in a field of the instance
invokeShared(op, arg) ==
    /\ Len(inflight) < MaxInflight
    /\ inflight' = Append([c \in 1..Len(inflight) |->
                              [inflight[c] EXCEPT !.request = Request(op, arg)]],
                          [op |-> op, arg |-> arg, request |-> Request(op, arg)])
    /\ UNCHANGED <<table, schema, issued, last, trav>>

invoke(op, arg) ==
    /\ Len(inflight) < MaxInflight
    /\ inflight' = Append(inflight, [op |-> op, arg |-> arg, request |-> Request(op, arg)])
    /\ UNCHANGED <<table, schema, issued, last, trav>>

\* a put sent as one statement per column it sets
respondInParts(c) ==
    LET call == inflight[c]
        split == call.op = "put" /\ Len(call.request.set) > 1
        part == IF split THEN [call.request EXCEPT !.set = <<Head(@)>>] ELSE call.request
    IN  \E out \in Database(schema, table, part) :
            /\ table' = out.table
            /\ schema' = out.schema
            /\ issued' = <<Exchange(part, out)>>
            /\ trav' = Watch(out.table)
            /\ IF split /\ out.error = ""
               THEN /\ inflight' = [inflight EXCEPT ![c].request.set = Tail(@)]
                    /\ last' = last
               ELSE /\ inflight' = RemoveAt(inflight, c)
                    /\ last' = Call(call.op, call.arg,
                                     Settle(out, Response(call.op, call.arg, out.records)))

respond(c) ==
    LET call == inflight[c]
    IN  \E out \in Database(schema, table, call.request) :
            /\ table' = out.table
            /\ schema' = out.schema
            /\ inflight' = RemoveAt(inflight, c)
            /\ issued' = <<Exchange(call.request, out)>>
            /\ last' = Call(call.op, call.arg,
                             Settle(out, Response(call.op, call.arg, out.records)))
            /\ trav' = Watch(out.table)

\* two items of one key that differ in every column, and one of another key
ConcurrentItems ==
    { [id |-> "u1", name |-> "Trevor", age |-> JsNull],
      [id |-> "u1", name |-> "Eternal", age |-> JsNumber(47)] }
ConcurrentWrites == { [id |-> "constructor", name |-> "Trevor", age |-> JsNumber(47)] }
ConcurrentKeys == {"u1"}
ConcurrentKeyLists == { <<"constructor", "u1">> }
ConcurrentQueries ==
    [cursor : {JsString("constructor")}, limit : {Undefined}, filter : {Undefined}]

NextConcurrent ==
    \/ \E key \in ConcurrentKeys : invoke("get", key)
    \/ \E keys \in ConcurrentKeyLists : invoke("getMany", keys)
    \/ \E item \in ConcurrentItems : invoke("put", item)
    \/ \E item \in ConcurrentWrites : invoke("create", item)
    \/ \E item \in ConcurrentItems : invoke("update", item)
    \/ \E query \in ConcurrentQueries : invoke("find", query)
    \/ invoke("clear", <<>>)
    \/ \E c \in 1..Len(inflight) : respond(c)

SpecConcurrent == Init /\ [][NextConcurrent]_vars

(***************************************************************************)
(* What the properties below speak of                                      *)
(***************************************************************************)
HasRow(tbl, k) == \E i \in 1..Len(tbl) : tbl[i].key.stringValue = k
RowsOf(tbl, k) == { i \in 1..Len(tbl) : tbl[i].key.stringValue = k }
StoredKeys(tbl) == { tbl[i].key.stringValue : i \in 1..Len(tbl) }
ItemOfRow(row) == JSONparse(row.item.stringValue)

\* row holds exactly what a write of item is to leave in it
RowHolds(row, item) ==
    /\ row.key = [stringValue |-> getItemKey(item)]
    /\ row.item = [stringValue |-> Jsonb(JSONstringify(item))]
    /\ \A n \in 1..Len(IndexNames) :
          row[IndexNames[n]] = value(IndexNames[n], pick(IndexNames[n], item))

FieldOfItem(item, field) == IF field = "name" THEN JsString(item.name) ELSE item.age

Satisfies(x, comparator, v) ==
    /\ x # JsNull
    /\ CASE comparator = "eq"  -> x = v
         [] comparator = "ne"  -> x # v
         [] comparator = "gt"  -> x.number > v.number
         [] comparator = "gte" -> x.number >= v.number
         [] comparator = "lt"  -> x.number < v.number
         [] comparator = "lte" -> x.number <= v.number
         [] comparator = "in"  -> \E i \in 1..Len(v.array) : x = v.array[i]

ItemMatches(item, filter) ==
    \/ filter = Undefined
    \/ \A field \in DOMAIN filter : \A comparator \in DOMAIN filter[field] :
          Satisfies(FieldOfItem(item, field), comparator, filter[field][comparator])

\* keys of the rows a query asks for: past its cursor, passing its filter
EligibleKeys(tbl, query) ==
    { tbl[i].key.stringValue : i \in
        { j \in 1..Len(tbl) :
            /\ query.cursor # Undefined =>
                  KeyRank(tbl[j].key.stringValue) > KeyRank(query.cursor.string)
            /\ ItemMatches(ItemOfRow(tbl[j]), query.filter) } }

\* the (field, comparator) pairs of a filter that count: a declared field,
\* a comparator of that field's set, and a value other than undefined
ActivePairs(filter) ==
    { pair \in UNION { { <<FilterFields[f], Comparators(FilterFields[f])[c]>> :
                            c \in 1..Len(Comparators(FilterFields[f])) } :
                        f \in 1..Len(FilterFields) } :
        /\ Prop(filter, pair[1]) # Undefined
        /\ Prop(filter[pair[1]], pair[2]) # Undefined }

PassesFilter(item, filter) ==
    \A pair \in ActivePairs(filter) :
        Satisfies(FieldOfItem(item, pair[1]), pair[2], filter[pair[1]][pair[2]])

\* rows a query asks for: past its cursor, passing every active comparator
AskedFor(tbl, query) ==
    { j \in 1..Len(tbl) :
        /\ query.cursor # Undefined =>
              KeyRank(tbl[j].key.stringValue) > KeyRank(query.cursor.string)
        /\ PassesFilter(ItemOfRow(tbl[j]), query.filter) }

\* the WHERE clauses of a statement other than the cursor bound
FilterClauses(stmt) ==
    { c \in 1..Len(stmt.where) : stmt.where[c].column # "key" }

\* the rows the executor returned to the last call and the call looked at:
\* all that match its statement, for a find with a limit those of the page
ReturnedRows ==
    LET rows == OrderByKey(Matching(table, issued[1].request))
    IN  IF last.op = "find" /\ hasLimit(last.arg)
        THEN SubSeq(rows, 1, Min(Len(rows), last.arg.limit.number))
        ELSE rows

\* of a list of column names, those of the index columns, in order
IndexColumns(names) == SelectSeq(names, LAMBDA c : c \notin {"key", "item"})

\* the columns a write statement writes
WrittenColumns(stmt) ==
    IF stmt.verb = "INSERT" THEN stmt.columns
    ELSE [c \in 1..Len(stmt.set) |-> stmt.set[c].column]

ParameterNames(stmt) == [j \in 1..Len(stmt.parameters) |-> stmt.parameters[j].name]

SingleValued == {"eq", "ne", "gt", "gte", "lt", "lte"}

Ascending(keys) ==
    \A i, j \in 1..Len(keys) : i < j => KeyRank(keys[i]) < KeyRank(keys[j])

Range(q) == { q[i] : i \in 1..Len(q) }

ExecutorFailed == last.status = "rejected" /\ last.value = "ServiceUnavailable"

(***************************************************************************)
(* Properties                                                              *)
(***************************************************************************)

\* C1: over a table that does not change, paging from find({limit: L}), L >= 1,
\* with the returned cursors ends after finitely many calls, and the pages
\* together hold every matching row exactly once, in ascending key order.
C1_TraversalComplete ==
    (trav.state \in {"open", "done"} /\ ~trav.changed) =>
        LET all == EligibleKeys(table, [cursor |-> Undefined, filter |-> trav.filter])
        IN  /\ Ascending(trav.keys)
            /\ Range(trav.keys) \subseteq all
            /\ trav.state = "done" => Range(trav.keys) = all
            /\ trav.calls <= Cardinality(all) + 1

\* C2: with a limit L >= 1 find returns at most L items; its cursor is non-null
\* exactly when more than L rows pass the query's cursor bound and filter, and
\* is then the key of the last returned item, the L-th such row in key order.
C2_LimitAndCursor ==
    (last.op = "find" /\ last.status = "resolved" /\ hasLimit(last.arg)
        /\ last.arg.limit.number >= 1) =>
        LET L == last.arg.limit.number
            eligible == EligibleKeys(table, last.arg)
            r == last.value
        IN  /\ Len(r.items) <= L
            /\ (r.cursor # JsNull) <=> (Cardinality(eligible) > L)
            /\ r.cursor # JsNull =>
                 /\ Len(r.items) = L
                 /\ r.cursor = JsString(r.edges[L].cursor)
                 /\ r.cursor.string \in eligible
                 /\ Cardinality({ k \in eligible :
                        KeyRank(k) <= KeyRank(r.cursor.string) }) = L

\* C3: find with cursor c returns only items whose key is strictly greater
\* than c; the row whose key is c is never returned.
C3_CursorExclusive ==
    (last.op = "find" /\ last.status = "resolved" /\ last.arg.cursor # Undefined) =>
        \A i \in 1..Len(last.value.items) :
            KeyRank(getItemKey(last.value.items[i])) > KeyRank(last.arg.cursor.string)

\* C4: find with no cursor, no limit and no filter returns every stored row,
\* in ascending key order, with a null cursor.
C4_FindAll ==
    (last.op = "find" /\ last.arg = [cursor |-> Undefined, limit |-> Undefined,
                                     filter |-> Undefined]) =>
        \/ ExecutorFailed
        \/ /\ last.status = "resolved"
           /\ last.value.cursor = JsNull
           /\ Len(last.value.items) = Len(table)
           /\ { last.value.items[i] : i \in 1..Len(table) }
                 = { ItemOfRow(table[i]) : i \in 1..Len(table) }
           /\ Ascending([i \in 1..Len(table) |-> getItemKey(last.value.items[i])])

C4_Witness ==
    /\ last.op = "find" /\ last.status = "resolved"
    /\ last.arg = [cursor |-> Undefined, limit |-> Undefined, filter |-> Undefined]
    /\ Len(last.value.items) = Cardinality(Keys)

\* C5: once create(i) has succeeded, get(key(i)) returns a value equal to i.
C5_GetAfterCreate ==
    (last.op = "create" /\ last.status = "resolved") =>
        \A out \in executeStatement(table, getStatement(getItemKey(last.arg))) :
            out.error = "" => getResult(out.records) = Resolved(last.arg)

C5_Witness ==
    /\ last.op = "create" /\ last.status = "resolved"
    /\ last.arg.age = JsNull
    /\ Len(table) > 1

\* C6: put(i) inserts a row when none has key(i) and otherwise overwrites the
\* row's item and every index column; afterwards the one row with key(i)
\* holds i and its index encodings, and get(key(i)) returns i.
C6_PutUpserts ==
    [][ (last'.op = "put" /\ last'.status = "resolved") =>
          LET i == last'.arg
              k == getItemKey(i)
          IN  /\ Cardinality(RowsOf(table', k)) = 1
              /\ Len(table') = Len(table) + (IF HasRow(table, k) THEN 0 ELSE 1)
              /\ \A r \in RowsOf(table', k) : RowHolds(table'[r], i)
              /\ \A out \in executeStatement(table', getStatement(k)) :
                    out.error = "" => getResult(out.records) = Resolved(i) ]_vars

C6_Witness ==
    /\ last.op = "put" /\ last.status = "resolved"
    /\ Len(table) = Cardinality(Keys)
    /\ \E r \in RowsOf(table, getItemKey(last.arg)) : RowHolds(table[r], last.arg)

\* C7: put is idempotent: after put(i), a second put(i) goes through and
\* leaves the table exactly as the first left it.
C7_PutIdempotent ==
    (last.op = "put" /\ last.status = "resolved") =>
        \A out \in executeStatement(table, putStatement(last.arg)) :
            /\ out.error \in {"", "ServiceUnavailable"}
            /\ out.table = table

C7_Witness ==
    /\ last.op = "put" /\ last.status = "resolved"
    /\ Len(table) > 1
    /\ last.arg.age # JsNull

\* C8: getMany([k1..kn]) resolves with exactly n entries, entry j being the
\* stored item with key kj or absent when there is none, whatever the order
\* of the returned rows and also for repeated keys.
C8_GetManyAligned ==
    (last.op = "getMany" /\ ~ExecutorFailed) =>
        /\ last.status = "resolved"
        /\ Len(last.value) = Len(last.arg)
        /\ \A j \in 1..Len(last.arg) :
              IF HasRow(table, last.arg[j])
              THEN \E r \in RowsOf(table, last.arg[j]) :
                      last.value[j] = ItemOfRow(table[r])
              ELSE last.value[j] = Undefined

\* C9: get of a key that has no row resolves with undefined; it never rejects
\* unless the executor itself failed.
C9_GetAbsent ==
    (last.op = "get" /\ ~HasRow(table, last.arg)) =>
        \/ ExecutorFailed
        \/ (last.status = "resolved" /\ last.value = Undefined)

C9_Witness ==
    /\ last.op = "get" /\ ~HasRow(table, last.arg)
    /\ last.status = "resolved" /\ last.value = Undefined
    /\ table # <<>>

\* C10: update never inserts: with no row of the item's key the table is left
\* as it was and the call still resolves; with such a row, the row's item and
\* all its index columns are replaced by the values derived from the item.
C10_UpdateNeverInserts ==
    [][ last'.op = "update" =>
          LET i == last'.arg
              k == getItemKey(i)
          IN  /\ last'.status = "rejected" =>
                    (last'.value = "ServiceUnavailable" /\ table' = table)
              /\ (last'.status = "resolved" /\ ~HasRow(table, k)) => table' = table
              /\ (last'.status = "resolved" /\ HasRow(table, k)) =>
                    /\ Len(table') = Len(table)
                    /\ \A r \in 1..Len(table) :
                          IF table[r].key.stringValue = k
                          THEN RowHolds(table'[r], i)
                          ELSE table'[r] = table[r] ]_vars

C10_Witness ==
    /\ last.op = "update" /\ last.status = "resolved"
    /\ ~HasRow(table, getItemKey(last.arg))
    /\ table # <<>>

\* C11: create does not upsert: when a row with the item's key is already
\* stored, create rejects with the failure the executor reported and that
\* row, item and index columns alike, stays as it was.
C11_CreateNeverOverwrites ==
    [][ (last'.op = "create" /\ HasRow(table, getItemKey(last'.arg))) =>
          /\ last'.status = "rejected"
          /\ last'.value \in {"unique_violation", "ServiceUnavailable"}
          /\ table' = table ]_vars

C11_Witness ==
    /\ last.op = "create" /\ last.status = "rejected"
    /\ last.value = "unique_violation"
    /\ \E r \in RowsOf(table, getItemKey(last.arg)) : ~RowHolds(table[r], last.arg)

\* C12: the rows find returns are exactly the stored rows that satisfy the
\* cursor bound, when the query has a cursor, and every active comparator of
\* every filter field: no row failing one of them is returned, and without a
\* limit no row satisfying all of them is left out.
C12_FindConjunction ==
    (last.op = "find" /\ last.status = "resolved") =>
        LET asked == { table[j].key.stringValue : j \in AskedFor(table, last.arg) }
            got == { last.value.edges[i].cursor : i \in 1..Len(last.value.edges) }
        IN  /\ got \subseteq asked
            /\ ~hasLimit(last.arg) => got = asked
            /\ \A i \in 1..Len(last.value.items) :
                  \E j \in AskedFor(table, last.arg) :
                      last.value.items[i] = ItemOfRow(table[j])

\* C17: find puts one WHERE clause into its statement for exactly the
\* (field, comparator) pairs where the field is a declared filter field, the
\* comparator is of that field's set and the query gives it a value other
\* than undefined (0 and "" count); undeclared fields and absent or undefined
\* comparators add nothing and make no error.
C17_ActiveClauses ==
    (last.op = "find") =>
        LET stmt == issued[1].request
        IN  /\ { <<stmt.where[c].column, stmt.where[c].cmp>> : c \in FilterClauses(stmt) }
                  = { <<pair[1], SqlOperator(pair[2])>> :
                         pair \in ActivePairs(last.arg.filter) }
            /\ Cardinality(FilterClauses(stmt))
                  = Cardinality(ActivePairs(last.arg.filter))
            /\ last.status = "rejected" => ExecutorFailed

C17_Witness ==
    /\ last.op = "find" /\ last.status = "resolved"
    /\ last.arg.filter = [age |-> [eq |-> JsNumber(0)]]
    /\ Cardinality(FilterClauses(issued[1].request)) = 1
    /\ Len(table) = Cardinality(Keys)
    /\ last.value.items = <<>>

\* C18: when the executor rejects a request with an error, the operation that
\* issued it (get, getMany, create, update, put, find, setup, teardown, clear)
\* rejects with that same error, without a second request and without a result.
C18_FailurePropagates ==
    \A i \in 1..Len(issued) :
        issued[i].error # "" =>
            /\ last.status = "rejected"
            /\ last.value = issued[i].error
            /\ Len(issued) = 1

C18_Witness ==
    /\ last.op = "setup" /\ last.status = "rejected"
    /\ issued[1].error = "duplicate_table"
    /\ table # <<>>

\* C19: every call of get, getMany, create, update, put, find, setup, teardown
\* or clear issues exactly one request to the executor; getMany issues a
\* single request that carries all its keys, in order.
C19_OneRequest ==
    (last.op # "none") =>
        /\ Len(issued) = 1
        /\ last.op = "getMany" =>
              /\ issued[1].request.verb = "SELECT"
              /\ [j \in 1..Len(issued[1].request.parameters) |->
                     issued[1].request.parameters[j].value.stringValue] = last.arg

C19_Witness ==
    /\ last.op = "getMany" /\ last.status = "resolved"
    /\ Len(last.arg) = MaxKeys
    /\ Len(issued) = 1
    /\ \A j \in 1..Len(last.arg) : HasRow(table, last.arg[j])

\* C20: when a row the executor returned carries item text that is not
\* decodable JSON, get, getMany and find reject with the parse error; they
\* never resolve with a result that leaves the row out or reports it absent.
C20_ParseErrorPropagates ==
    (/\ last.op \in {"get", "getMany", "find"}
     /\ issued[1].error = ""
     /\ \E i \in 1..Len(ReturnedRows) : ~Decodable(ReturnedRows[i].item.stringValue)) =>
        (last.status = "rejected" /\ last.value = "SyntaxError")

\* C14: the index columns that setup's CREATE TABLE names are, in number and
\* order, exactly the index columns and parameters that every write (create,
\* update, put) of the same adapter writes.
C14_SetupMatchesWrites ==
    (last.op \in {"create", "update", "put"} /\ schema # <<>>) =>
        LET declared == IndexColumns([c \in 1..Len(schema) |-> schema[c].name])
            stmt == issued[1].request
        IN  /\ IndexColumns(WrittenColumns(stmt)) = declared
            /\ IndexColumns(ParameterNames(stmt)) = declared

\* C15: for every field f and single-valued comparator c (eq, ne, gt, gte, lt,
\* lte) the clause of a find statement is f <op> :f__c, with op the SQL
\* operator of c, and binds exactly one parameter, named f__c.
C15_ParameterNames ==
    (last.op \in {"find", "findByIndexes"}) =>
        LET stmt == issued[1].request
        IN  \A c \in FilterClauses(stmt) :
                stmt.where[c].cmp # "IN" =>
                    \E comparator \in SingleValued :
                        /\ stmt.where[c].cmp = SqlOperator(comparator)
                        /\ stmt.where[c].params
                              = <<stmt.where[c].column \o "__" \o comparator>>
                        /\ Cardinality({ j \in 1..Len(stmt.parameters) :
                               stmt.parameters[j].name
                                 = stmt.where[c].column \o "__" \o comparator }) = 1

\* C16: an in comparator on field f with n >= 1 values binds exactly n scalar
\* parameters f__in_0 .. f__in_(n-1), the i-th carrying the i-th value (order
\* kept, repeats kept), and lists the placeholders in the same order.
C16_InListParameters ==
    (/\ last.op = "findByIndexes"
     /\ Prop(Prop(last.arg.filter, "name"), "in") # Undefined
     /\ Len(last.arg.filter.name["in"].array) >= 1) =>
        LET values == last.arg.filter.name["in"].array
            stmt == issued[1].request
            names == [i \in 1..Len(values) |-> "name__in_" \o ToString(i - 1)]
        IN  /\ \E c \in FilterClauses(stmt) :
                  /\ stmt.where[c].column = "name"
                  /\ stmt.where[c].cmp = "IN"
                  /\ stmt.where[c].params = names
            /\ SelectSeq(stmt.parameters, LAMBDA q : q.name \in Range(names))
                  = [i \in 1..Len(values) |->
                        Param(names[i], [stringValue |-> values[i].string])]

C16_Witness ==
    /\ last.op = "findByIndexes" /\ last.status = "resolved"
    /\ last.arg.filter
         = [name |-> [in |-> JsArray(<<JsString("Eternal"), JsString("Eternal")>>)]]
    /\ Len(issued[1].request.parameters) = 2
    /\ Len(last.value.items) > 1

\* C13: every statement find issues orders its rows by key, whether or not
\* the query has a cursor, a limit or a filter.
C13_FindOrdersByKey ==
    (last.op \in {"find", "findByIndexes", "findById"}) =>
        \A i \in 1..Len(issued) : issued[i].request.orderBy


\* C23: find({limit: 0}) resolves with an empty items list in every state of
\* the store, also when rows match the query.
C23_LimitZeroResolves ==
    (last.op = "find" /\ last.arg.limit = JsNumber(0) /\ ~ExecutorFailed) =>
        /\ last.status = "resolved"
        /\ last.value.items = <<>>

\* C24: whenever the query carries a cursor string c, the empty string
\* included, find binds it and adds the bound key > c to its statement, and no
\* returned item has a key less than or equal to c.
C24_CursorAlwaysBound ==
    (last.op = "find" /\ last.arg.cursor # Undefined) =>
        LET stmt == issued[1].request
        IN  /\ \E c \in 1..Len(stmt.where) :
                  /\ stmt.where[c] = KeyClause(">", <<"key">>)
                  /\ ParamValue(stmt.parameters, "key")
                        = [stringValue |-> last.arg.cursor.string]
            /\ last.status = "resolved" =>
                  \A i \in 1..Len(last.value.edges) :
                      KeyRank(last.value.edges[i].cursor)
                          > KeyRank(last.arg.cursor.string)

\* C25: getMany gives the absent marker at position j whenever no row has
\* the key kj, for every string kj, names that a plain lookup object
\* inherits (such as "constructor") included.
C25_AbsentForEveryKey ==
    (last.op = "getMany" /\ last.status = "resolved") =>
        \A j \in 1..Len(last.arg) :
            ~HasRow(table, last.arg[j]) => last.value[j] = Undefined


\* C22: auroraNullable(codec) maps null to {isNull: true} and every other
\* value v to codec(v); so a write of an item whose indexed field is null binds
\* {isNull: true} for that index and a non-null field binds the codec's value.
C22_NullableCodec ==
    /\ \A v \in Ages :
          auroraNullable("auroraLongValue", v)
              = IF v = JsNull THEN [isNull |-> TRUE] ELSE auroraLongValue(v)
    /\ (last.op \in {"put", "create", "update"}) =>
          ParamValue(issued[1].request.parameters, "age")
              = IF last.arg.age = JsNull THEN [isNull |-> TRUE]
                                         ELSE [longValue |-> last.arg.age.number]

C22_Witness ==
    /\ last.op = "put" /\ last.status = "resolved"
    /\ last.arg.age = JsNull
    /\ ParamValue(issued[1].request.parameters, "age") = [isNull |-> TRUE]
    /\ \E r \in RowsOf(table, getItemKey(last.arg)) : table[r].age = [isNull |-> TRUE]
    /\ \E r \in 1..Len(table) : table[r].age = [longValue |-> 47]

\* C30: create, update and put of an item change at most the row whose key is
\* the item's key and leave every other row as it was; get, getMany and find
\* change no row; both whether the call resolves or rejects.
C30_SingleRowFrame ==
    [][ /\ last'.op \in {"create", "update", "put"} =>
              \A k \in Keys \ {getItemKey(last'.arg)} :
                  { table'[r] : r \in RowsOf(table', k) }
                      = { table[r] : r \in RowsOf(table, k) }
        /\ last'.op \in {"get", "getMany", "find"} => table' = table ]_vars

C30_Witness ==
    /\ last.op = "update" /\ last.status = "resolved"
    /\ \E r \in RowsOf(table, getItemKey(last.arg)) : RowHolds(table[r], last.arg)
    /\ \E r \in 1..Len(table) :
          /\ table[r].key.stringValue # getItemKey(last.arg)
          /\ table[r].age # value("age", pick("age", last.arg))

\* C27: after any sequence of create, update, put and clear, every stored
\* row is consistent with its own item: the key column is the key of the
\* decoded item column and each index column is that index's encoding of the
\* value picked from the decoded item.
C27_RowsConsistent ==
    \A r \in 1..Len(table) :
        LET item == ItemOfRow(table[r])
        IN  /\ table[r].key = [stringValue |-> getItemKey(item)]
            /\ \A n \in 1..Len(IndexNames) :
                  table[r][IndexNames[n]] = value(IndexNames[n], pick(IndexNames[n], item))

C27_Witness ==
    /\ last.op = "update" /\ last.status = "resolved"
    /\ Len(table) = 3
    /\ \E r \in RowsOf(table, getItemKey(last.arg)) :
          /\ ItemOfRow(table[r]) = last.arg
          /\ table[r].age = [isNull |-> TRUE]
    /\ \E r \in 1..Len(table) : "longValue" \in DOMAIN table[r].age

\* C21: callers share no state through the store: the request of every
\* invocation in flight is the statement built from its own argument, and
\* whenever one completes, in any interleaving, it has issued that request and
\* settled as the same call made alone against the table it found.
C21_InterleavingsAsSequential ==
    [][ /\ \A c \in 1..Len(inflight') :
              inflight'[c].request = Request(inflight'[c].op, inflight'[c].arg)
        /\ Len(inflight') < Len(inflight) =>
              \E out \in Database(schema, table, Request(last'.op, last'.arg)) :
                  /\ table' = out.table
                  /\ issued' = <<Exchange(Request(last'.op, last'.arg), out)>>
                  /\ last'.status = Settle(out, Response(last'.op, last'.arg, out.records)).status
                  /\ last'.value = Settle(out, Response(last'.op, last'.arg, out.records)).value
      ]_vars

C21_Witness ==
    /\ last.op = "get" /\ last.status = "resolved" /\ last.value # Undefined
    /\ Len(inflight) = 1 /\ inflight[1].op = "put"
    /\ getItemKey(inflight[1].arg) = last.arg
    /\ inflight[1].arg # last.value

\* C26: of two puts in flight for one key with different items, whichever
\* statement runs leaves the row of that key holding that put's item entirely,
\* item column and every index column; no stored row mixes two items.
C26_PutsNeverMix ==
    /\ \A r \in 1..Len(table) : \E item \in Items : RowHolds(table[r], item)
    /\ (last.op = "put" /\ last.status = "resolved") =>
          \A r \in RowsOf(table, getItemKey(last.arg)) : RowHolds(table[r], last.arg)

C26_Witness ==
    /\ last.op = "put" /\ last.status = "resolved"
    /\ Len(inflight) = 1 /\ inflight[1].op = "put"
    /\ getItemKey(inflight[1].arg) = getItemKey(last.arg)
    /\ inflight[1].arg.name # last.arg.name
    /\ inflight[1].arg.age # last.arg.age
    /\ issued[1].request.verb = "INSERT"
    /\ \E r \in RowsOf(table, getItemKey(last.arg)) : RowHolds(table[r], last.arg)

\* C28: in a traversal, each find called with the cursor the previous page
\* returned, the keys of all pages taken together ascend strictly even when
\* put, create, update and clear run between the calls, so that no key is
\* returned twice; and every cursor a page returns is strictly greater than
\* the cursor that page was asked with.
C28_TraversalMonotone ==
    /\ trav.state \in {"open", "done"} => Ascending(trav.keys)
    /\ (last.op = "find" /\ last.status = "resolved"
            /\ last.arg.cursor # Undefined /\ last.value.cursor # JsNull) =>
          KeyRank(last.value.cursor.string) > KeyRank(last.arg.cursor.string)

\* the names of the placeholders in the text of a statement
PlaceholderNames(stmt) ==
    (IF "where" \in DOMAIN stmt
     THEN UNION { Range(stmt.where[c].params) : c \in 1..Len(stmt.where) } ELSE {})
    \cup (IF stmt.verb = "INSERT" THEN Range(stmt.values) ELSE {})
    \cup (IF stmt.verb = "UPDATE"
          THEN { stmt.set[j].param : j \in 1..Len(stmt.set) } ELSE {})

BoundParameters(stmt) == IF "parameters" \in DOMAIN stmt THEN stmt.parameters ELSE <<>>

\* C29: in every statement issued, every placeholder of the text is bound by
\* exactly one parameter, every parameter's name is a placeholder of the text,
\* and no two parameters share a name; whatever the cursor, the filter fields,
\* the comparators and the length of an in list, zero included.
C29_PlaceholdersBound ==
    \A e \in 1..Len(issued) :
        LET stmt == issued[e].request
            bound == BoundParameters(stmt)
        IN  /\ \A p \in PlaceholderNames(stmt) :
                  Cardinality({ j \in 1..Len(bound) : bound[j].name = p }) = 1
            /\ \A j \in 1..Len(bound) : bound[j].name \in PlaceholderNames(stmt)
            /\ \A i, j \in 1..Len(bound) : i # j => bound[i].name # bound[j].name

====
